---------------------------- MODULE Spec2Model ----------------------------
(***************************************************************************)
(* Bet_Ledger: the bet-creation and settlement handlers of src/app.py and  *)
(* the odds arithmetic of src/services/odds.py, over the tables of         *)
(* src/models.py.                                                          *)
(*                                                                         *)
(* Storage is the committed content of the tables bet, bet_leg,            *)
(* bet_participant, settlement and transaction.  Each table is a sequence *)
(* of rows whose index is the autoincrement primary key.  One step of the  *)
(* model is one HTTP request handled from start to finish (the deployment  *)
(* is single-threaded and synchronous).                                    *)
(*                                                                         *)
(* Numbers.  In the handlers' state machine Python floats are modelled by  *)
(* exact rationals [num, den] in lowest terms.  The odds and stakes the    *)
(* handlers are given are chosen so that every value they compute is a     *)
(* dyadic rational that a double holds exactly (decimal odds 1.5 and 2.5,  *)
(* stakes of 0 or 1 cent, total stakes of 1 or 2 cents): on these inputs   *)
(* the rationals are the floats (RationalsAreTheDoubles).  Where rounding  *)
(* of doubles matters (the round trip of services/odds.py, the split of a  *)
(* payout over stakes that do not divide it) the same arithmetic is        *)
(* modelled in binary64, bit for bit, and evaluated on its own in          *)
(* ArithmeticSpec.                                                         *)
(***************************************************************************)
EXTENDS Integers, Sequences, FiniteSets

VARIABLES
    bets,          \* table bet:             Seq of [stake_cents, status, placed_at, settled_at]
    legs,          \* table bet_leg:         Seq of [bet_id, american_odds, result]
    participants,  \* table bet_participant: Seq of [bet_id, person_id, stake_cents]
    settlements,   \* table settlement:      Seq of [bet_id, person_id, net_cents, ts]
    transactions,  \* table transaction:     Seq of [person_id, type, amount_cents, ts]
    calc,          \* the evaluation made of the odds and payout arithmetic on
                   \* its own: [fn, its arguments, its results]
    now,           \* the value the next datetime.now() returns
    lastReq        \* the last request that got past validation:
                   \* [op, bet_id, outcome, session_legs], session_legs being
                   \* table bet_leg as the handler's session saw it at its end

vars == <<bets, legs, participants, settlements, transactions, calc, now, lastReq>>

storage == <<bets, legs, participants, settlements>>

-----------------------------------------------------------------------------
(* Bounds of the model *)

\* table bet_leg holds at most this many rows (so at most this many bets, each
\* of at least one leg, and at most this many legs in one bet)
MaxLegRows == 2
\* no request is handled once the clock has passed this
MaxClock == 3
\* the odds arithmetic is evaluated on American odds of at most this magnitude
MaxOdds == 120
\* and the split of a payout on stakes of at most this many cents each
MaxStakeCents == 3

-----------------------------------------------------------------------------
(* Inputs *)

\* the persons seed_db creates (ids 1 and 2); no handler adds or removes one
Persons == {1, 2}

\* American odds typed into a leg's odds field
OddsValues == {-200, 0, 150}

\* a form field holding the text of integer a, and an empty or missing field
Field(a) == <<a>>
NoField == <<>>
OddsFields == {NoField} \cup {Field(a) : a \in OddsValues}

\* stake fields, in thousandths of a dollar: "0", "0.005", "0.01"
StakeMills == {0, 5, 10}

\* the type and amount fields of the transaction form, the amount in
\* thousandths of a dollar: a deposit of "0.5" and an adjustment of "-0.015"
TypedAmounts == {[type |-> "deposit", amount |-> 500],
                 [type |-> "adjustment", amount |-> -15]}

\* values of a leg_<id>_result field, as the settlement form submits them.  An
\* empty or missing field ("") is skipped by the same test as "pending", and
\* any other token falls through the won/lost/void chain to the same effect.
ResultTokens == {"pending", "won", "lost", "void"}

-----------------------------------------------------------------------------
(* Enums and nullable columns *)

BetStatus == {"OPEN", "WON", "LOST", "VOID", "CASHED_OUT"}
LegResult == {"PENDING", "WON", "LOST", "VOID"}

\* a nullable DateTime column: NULL, or a stored time
NULL == <<>>
Time(t) == <<t>>

-----------------------------------------------------------------------------
(* Rational arithmetic standing for Python's float arithmetic *)

Abs(x) == IF x < 0 THEN -x ELSE x

RECURSIVE Gcd(_, _)
Gcd(a, b) == IF b = 0 THEN a ELSE Gcd(b, a % b)

\* n/d in lowest terms, d > 0
Rat(n, d) == LET g == Gcd(Abs(n), d) IN [num |-> n \div g, den |-> d \div g]

RatInt(n) == [num |-> n, den |-> 1]
RatMul(x, y) == Rat(x.num * y.num, x.den * y.den)
RatSub(x, y) == Rat(x.num * y.den - y.num * x.den, x.den * y.den)
RatAdd(x, y) == Rat(x.num * y.den + y.num * x.den, x.den * y.den)

\* Python's round() on a non-negative float n/d: nearest integer, ties to even
RoundHalfEven(n, d) ==
    LET q == n \div d
        r == n % d
    IN  IF 2 * r < d THEN q
        ELSE IF 2 * r > d THEN q + 1
        ELSE IF q % 2 = 0 THEN q ELSE q + 1

-----------------------------------------------------------------------------
(* Natural numbers of any size, for the significands of doubles *)

\* Op applied to the value of v: v is evaluated once, whatever use Op makes
\* of its argument
Bind(v, Op(_)) == CHOOSE r \in {Op(x) : x \in {v}} : TRUE

\* digits in base 2^15, least significant first, the last digit nonzero;
\* <<>> is 0
Base == 32768
DigitBits == 15

RECURSIVE Pow2(_)
Pow2(k) == IF k = 0 THEN 1 ELSE 2 * Pow2(k - 1)

RECURSIVE BNat(_)
BNat(n) == IF n = 0 THEN <<>> ELSE <<n % Base>> \o BNat(n \div Base)

\* the value of the digits i.. of x, in units of digit i
RECURSIVE BIntFrom(_, _)
BIntFrom(x, i) == IF i > Len(x) THEN 0 ELSE x[i] + Base * BIntFrom(x, i + 1)

BInt(x0) == Bind(x0, LAMBDA x : BIntFrom(x, 1))

\* the digits 1..n of x without the zero digits at the end
RECURSIVE BNormTo(_, _)
BNormTo(x, n) ==
    IF n = 0 THEN <<>>
    ELSE IF x[n] # 0 THEN SubSeq(x, 1, n)
    ELSE BNormTo(x, n - 1)

BNorm(x0) == Bind(x0, LAMBDA x : BNormTo(x, Len(x)))

Digit(x, i) == IF i <= Len(x) THEN x[i] ELSE 0

\* -1, 0 or 1 as x <, =, > y, comparing from digit i down
RECURSIVE BCmpFrom(_, _, _)
BCmpFrom(x, y, i) ==
    IF i = 0 THEN 0
    ELSE IF x[i] < y[i] THEN -1
    ELSE IF x[i] > y[i] THEN 1
    ELSE BCmpFrom(x, y, i - 1)

BCmp(x0, y0) ==
    Bind(x0, LAMBDA x : Bind(y0, LAMBDA y :
        IF Len(x) < Len(y) THEN -1
        ELSE IF Len(x) > Len(y) THEN 1
        ELSE BCmpFrom(x, y, Len(x))))

\* digits i.. of x + y + carry
RECURSIVE BAddFrom(_, _, _, _)
BAddFrom(x, y, i, carry) ==
    IF i > Len(x) /\ i > Len(y)
    THEN IF carry = 0 THEN <<>> ELSE <<carry>>
    ELSE Bind(Digit(x, i) + Digit(y, i) + carry, LAMBDA t :
            <<t % Base>> \o BAddFrom(x, y, i + 1, t \div Base))

BAdd(x0, y0) == Bind(x0, LAMBDA x : Bind(y0, LAMBDA y : BAddFrom(x, y, 1, 0)))

\* digits i.. of x - y - borrow, for x >= y
RECURSIVE BSubFrom(_, _, _, _)
BSubFrom(x, y, i, borrow) ==
    IF i > Len(x) THEN <<>>
    ELSE Bind(Digit(x, i) - Digit(y, i) - borrow, LAMBDA t :
            IF t < 0
            THEN <<t + Base>> \o BSubFrom(x, y, i + 1, 1)
            ELSE <<t>> \o BSubFrom(x, y, i + 1, 0))

BSub(x0, y0) ==
    Bind(x0, LAMBDA x : Bind(y0, LAMBDA y : BNorm(BSubFrom(x, y, 1, 0))))

\* digits i.. of x * k + carry, for a digit k
RECURSIVE BMulDigitFrom(_, _, _, _)
BMulDigitFrom(x, k, i, carry) ==
    IF i > Len(x)
    THEN IF carry = 0 THEN <<>> ELSE <<carry>>
    ELSE Bind(x[i] * k + carry, LAMBDA t :
            <<t % Base>> \o BMulDigitFrom(x, k, i + 1, t \div Base))

BMulDigit(x0, k0) ==
    Bind(x0, LAMBDA x : Bind(k0, LAMBDA k :
        IF k = 0 THEN <<>> ELSE BMulDigitFrom(x, k, 1, 0)))

\* x * Base
BShiftDigit(x0) == Bind(x0, LAMBDA x : IF x = <<>> THEN x ELSE <<0>> \o x)

\* x times the digits j.. of y, in units of digit j
RECURSIVE BMulFrom(_, _, _)
BMulFrom(x, y, j) ==
    IF j > Len(y) THEN <<>>
    ELSE BAdd(BMulDigit(x, y[j]), BShiftDigit(BMulFrom(x, y, j + 1)))

BMul(x0, y0) == Bind(x0, LAMBDA x : Bind(y0, LAMBDA y : BMulFrom(x, y, 1)))

\* x * 2^k
BShl(x0, k0) ==
    Bind(x0, LAMBDA x : Bind(k0, LAMBDA k :
        IF x = <<>> THEN x
        ELSE [i \in 1..(k \div DigitBits) |-> 0] \o BMulDigit(x, Pow2(k % DigitBits))))

\* the quotient of x by the digit k, from digit i down with remainder rem
RECURSIVE BDivDigitFrom(_, _, _, _)
BDivDigitFrom(x, k, i, rem) ==
    IF i = 0 THEN <<>>
    ELSE Bind(rem * Base + x[i], LAMBDA t :
            Append(BDivDigitFrom(x, k, i - 1, t % k), t \div k))

\* floor(x / 2^k)
BShr(x0, k0) ==
    Bind(x0, LAMBDA x : Bind(k0, LAMBDA k :
        IF k \div DigitBits >= Len(x) THEN <<>>
        ELSE Bind(SubSeq(x, k \div DigitBits + 1, Len(x)), LAMBDA hi :
                Bind(Pow2(k % DigitBits), LAMBDA p :
                    BNorm(BDivDigitFrom(hi, p, Len(hi), 0))))))

RECURSIVE IntBitLen(_)
IntBitLen(n) == IF n = 0 THEN 0 ELSE 1 + IntBitLen(n \div 2)

\* the number of binary digits of x
BitLen(x0) ==
    Bind(x0, LAMBDA x :
        IF x = <<>> THEN 0 ELSE DigitBits * (Len(x) - 1) + IntBitLen(x[Len(x)]))

\* binary digit i of x, counted from 0
Bit(x, i) == (Digit(x, i \div DigitBits + 1) \div Pow2(i % DigitBits)) % 2

\* one step of schoolbook division by d: from the quotient and remainder qr0
\* of the binary digits above, those after the next binary digit, bit
DivStep(qr0, d, bit) ==
    Bind(qr0, LAMBDA qr :
    Bind(BAdd(BMulDigit(qr.r, 2), BNat(bit)), LAMBDA r :
    Bind(BMulDigit(qr.q, 2), LAMBDA q :
        IF BCmp(r, d) >= 0
        THEN [q |-> BAdd(q, <<1>>), r |-> BSub(r, d)]
        ELSE [q |-> q, r |-> r])))

\* the steps for the binary digits hi down to lo of n, the upper half of
\* the range first and then the lower half
RECURSIVE DivRange(_, _, _, _, _)
DivRange(qr0, n, d, hi, lo) ==
    IF hi = lo THEN DivStep(qr0, d, Bit(n, hi))
    ELSE Bind((hi + lo) \div 2, LAMBDA mid :
         Bind(DivRange(qr0, n, d, hi, mid + 1), LAMBDA qr :
            DivRange(qr, n, d, mid, lo)))

\* quotient and remainder of n by d
BDivMod(n0, d0) ==
    Bind(n0, LAMBDA n : Bind(d0, LAMBDA d :
        IF n = <<>> THEN [q |-> <<>>, r |-> <<>>]
        ELSE DivRange([q |-> <<>>, r |-> <<>>], n, d, BitLen(n) - 1, 0)))

-----------------------------------------------------------------------------
(* IEEE-754 binary64 arithmetic, as CPython's float does it *)

\* A double is sgn * man * 2^exp with sgn in {-1, 0, 1} and man an odd natural
\* number below 2^53 (<<>> for zero), so that equal values are equal records.
\* The exponent is not bounded: no value the handlers compute on the inputs
\* drawn here overflows or is subnormal.  Zero carries no sign.
Precision == 53

FZero == [sgn |-> 0, man |-> <<>>, exp |-> 0]

RECURSIVE IntTrailingZeros(_)
IntTrailingZeros(n) == IF n % 2 = 1 THEN 0 ELSE 1 + IntTrailingZeros(n \div 2)

\* the number of zero binary digits x > 0 ends with, counting from digit i
RECURSIVE TrailingZerosFrom(_, _)
TrailingZerosFrom(x, i) ==
    IF x[i] = 0 THEN DigitBits + TrailingZerosFrom(x, i + 1)
    ELSE IntTrailingZeros(x[i])

\* sgn * man * 2^exp with the factors of two moved from man to exp
Canonical(sgn, man0, exp) ==
    Bind(man0, LAMBDA man :
        IF man = <<>> THEN FZero
        ELSE Bind(TrailingZerosFrom(man, 1), LAMBDA z :
                [sgn |-> sgn, man |-> BShr(man, z), exp |-> exp + z]))

\* the significand of 53 binary digits nearest to the quotient q with
\* remainder flag inexact (the division left a remainder), ties to the even
\* one, and the number x of binary digits dropped from q
RoundQuotient(q, inexact) ==
    Bind(BitLen(q) - Precision, LAMBDA x :
    Bind(BShr(q, x), LAMBDA m0 :
    Bind(BCmp(BSub(q, BShl(m0, x)), BNat(Pow2(x - 1))), LAMBDA c :
        [man |-> IF c > 0 \/ (c = 0 /\ (inexact \/ Head(m0) % 2 = 1))
                 THEN BAdd(m0, <<1>>) ELSE m0,
         dropped |-> x])))

\* the double nearest to sgn * (n / d) * 2^exp, ties to the even significand
\* (n, d > 0): the quotient is taken to 54 or 55 binary digits, and the one
\* or two digits beyond the 53rd decide, with the remainder, the direction
RoundToDouble(sgn0, n0, d0, exp0) ==
    Bind(sgn0, LAMBDA sgn : Bind(n0, LAMBDA n : Bind(d0, LAMBDA d : Bind(exp0, LAMBDA exp :
    Bind((Precision + 1) - (BitLen(n) - BitLen(d)), LAMBDA s :
    Bind(BDivMod(IF s >= 0 THEN BShl(n, s) ELSE n,
                 IF s >= 0 THEN d ELSE BShl(d, -s)), LAMBDA qr :
    Bind(RoundQuotient(qr.q, qr.r # <<>>), LAMBDA m :
        Canonical(sgn, m.man, exp - s + m.dropped))))))))

\* float(n) of an int
FInt(n) ==
    IF n = 0 THEN FZero
    ELSE Canonical(IF n < 0 THEN -1 ELSE 1, BNat(IF n < 0 THEN -n ELSE n), 0)

FZeroDivisionError == [sgn |-> 0, man |-> <<>>, exp |-> 1]

\* x / y
FDiv(x0, y0) ==
    Bind(x0, LAMBDA x : Bind(y0, LAMBDA y :
        IF y.sgn = 0 THEN FZeroDivisionError
        ELSE IF x.sgn = 0 THEN FZero
        ELSE RoundToDouble(x.sgn * y.sgn, x.man, y.man, x.exp - y.exp)))

\* x * y
FMul(x0, y0) ==
    Bind(x0, LAMBDA x : Bind(y0, LAMBDA y :
        IF x.sgn = 0 \/ y.sgn = 0 THEN FZero
        ELSE RoundToDouble(x.sgn * y.sgn, BMul(x.man, y.man), <<1>>, x.exp + y.exp)))

\* the exact sum of two doubles: a record of the same shape whose significand
\* may exceed 53 binary digits
ExactAdd(x0, y0) ==
    Bind(x0, LAMBDA x : Bind(y0, LAMBDA y :
        IF x.sgn = 0 THEN y
        ELSE IF y.sgn = 0 THEN x
        ELSE Bind(IF x.exp < y.exp THEN x.exp ELSE y.exp, LAMBDA e :
             Bind(BShl(x.man, x.exp - e), LAMBDA a :
             Bind(BShl(y.man, y.exp - e), LAMBDA b :
             Bind(BCmp(a, b), LAMBDA c :
                IF x.sgn = y.sgn THEN Canonical(x.sgn, BAdd(a, b), e)
                ELSE IF c = 0 THEN FZero
                ELSE IF c > 0 THEN Canonical(x.sgn, BSub(a, b), e)
                ELSE Canonical(y.sgn, BSub(b, a), e)))))))

\* x + y: the exact sum, rounded
FAdd(x, y) ==
    Bind(ExactAdd(x, y), LAMBDA z :
        IF z.sgn = 0 THEN FZero ELSE RoundToDouble(z.sgn, z.man, <<1>>, z.exp))

FNeg(x0) == Bind(x0, LAMBDA x : [x EXCEPT !.sgn = -x.sgn])

\* x - y
FSub(x, y) == FAdd(x, FNeg(y))

\* x >= y
FGe(x, y) == FSub(x, y).sgn >= 0

\* x > y
FGt(x, y) == FSub(x, y).sgn > 0

\* int(x): the integer part, truncated toward zero
FTrunc(x0) ==
    Bind(x0, LAMBDA x :
        x.sgn * BInt(IF x.exp >= 0 THEN BShl(x.man, x.exp) ELSE BShr(x.man, -x.exp)))

\* round(x): the nearest integer, ties to the even one
FRound(x0) ==
    Bind(x0, LAMBDA x :
        IF x.exp >= 0 THEN FTrunc(x)
        ELSE Bind(BShr(x.man, -x.exp), LAMBDA q :
             Bind(BCmp(BSub(x.man, BShl(q, -x.exp)), BShl(<<1>>, -x.exp - 1)), LAMBDA c :
             Bind(BInt(q), LAMBDA n :
                x.sgn * (n + IF c > 0 \/ (c = 0 /\ n % 2 = 1) THEN 1 ELSE 0)))))

-----------------------------------------------------------------------------
(* services/odds.py *)

\* the value standing for "the call raised ZeroDivisionError"
ZeroDivisionError == [num |-> 0, den |-> 0]

\* american_to_decimal: 1 + a/100 for a > 0, else 1 + 100/abs(a); 0 takes the
\* else branch and divides by abs(0)
american_to_decimal(american_odds) ==
    IF american_odds > 0
    THEN Rat(100 + american_odds, 100)
    ELSE IF Abs(american_odds) = 0
         THEN ZeroDivisionError
         ELSE Rat(Abs(american_odds) + 100, Abs(american_odds))

\* calculate_parlay_payout: round(stake_cents * decimal_odds)
calculate_parlay_payout(stake_cents, decimal_odds) ==
    RoundHalfEven(stake_cents * decimal_odds.num, decimal_odds.den)

-----------------------------------------------------------------------------
(* services/odds.py in binary64 *)

\* american_to_decimal on doubles; FZeroDivisionError when the call raises
american_to_decimal_f64(american_odds) ==
    IF american_odds > 0
    THEN FAdd(FInt(1), FDiv(FInt(american_odds), FInt(100)))
    ELSE Bind(FDiv(FInt(100), FInt(Abs(american_odds))), LAMBDA q :
            IF q = FZeroDivisionError THEN q ELSE FAdd(FInt(1), q))

\* decimal_to_american as it would be with > 2.0 for >= 2.0
decimal_to_american_above_two(decimal_odds) ==
    Bind(decimal_odds, LAMBDA d :
        IF FGt(d, FInt(2))
        THEN FTrunc(FMul(FSub(d, FInt(1)), FInt(100)))
        ELSE Bind(FDiv(FInt(-100), FSub(d, FInt(1))), LAMBDA q :
                IF q = FZeroDivisionError THEN q ELSE FTrunc(q)))

\* decimal_to_american: int((d - 1) * 100) for d >= 2.0, else
\* int(-100 / (d - 1)), which raises for d = 1.0
decimal_to_american(decimal_odds) ==
    Bind(decimal_odds, LAMBDA d :
        IF FGe(d, FInt(2))
        THEN FTrunc(FMul(FSub(d, FInt(1)), FInt(100)))
        ELSE Bind(FDiv(FInt(-100), FSub(d, FInt(1))), LAMBDA q :
                IF q = FZeroDivisionError THEN q ELSE FTrunc(q)))

\* calculate_parlay_payout on doubles: round(stake_cents * decimal_odds)
calculate_parlay_payout_f64(stake_cents, decimal_odds) ==
    FRound(FMul(FInt(stake_cents), decimal_odds))

-----------------------------------------------------------------------------
(* Queries *)

\* BetLeg.query.filter(BetLeg.bet_id == bet_id).all(): the ids, in id order
LegIdsOf(L, bet_id) == {i \in DOMAIN L : L[i].bet_id = bet_id}

\* BetParticipant.query.filter(BetParticipant.bet_id == bet_id).all()
ParticipantsOf(P, bet_id) == SelectSeq(P, LAMBDA p : p.bet_id = bet_id)

RECURSIVE SumStakes(_)
SumStakes(ps) ==
    IF ps = <<>> THEN 0 ELSE Head(ps).stake_cents + SumStakes(Tail(ps))

-----------------------------------------------------------------------------
(* settle_bet *)

\* the body of the loop over legs: a result that is non-empty and not
\* 'pending' is applied to the leg, whatever the leg's current result; a token
\* that is none of won/lost/void leaves the leg as it is
ApplyResult(leg, result) ==
    IF result # "" /\ result # "pending"
    THEN IF result = "won" THEN [leg EXCEPT !.result = "WON"]
         ELSE IF result = "lost" THEN [leg EXCEPT !.result = "LOST"]
         ELSE IF result = "void" THEN [leg EXCEPT !.result = "VOID"]
         ELSE leg
    ELSE leg

\* the legs table as the session sees it after the loop and the flush
UpdateLegResults(L, bet_id, form) ==
    [i \in DOMAIN L |->
        IF L[i].bet_id = bet_id THEN ApplyResult(L[i], form[i]) ELSE L[i]]

\* has_lost as it would be had the handler used all() for any()
has_lost_all(L, bet_id) == \A i \in LegIdsOf(L, bet_id) : L[i].result = "LOST"

has_lost(L, bet_id) == \E i \in LegIdsOf(L, bet_id) : L[i].result = "LOST"
has_pending(L, bet_id) == \E i \in LegIdsOf(L, bet_id) : L[i].result = "PENDING"
all_winning(L, bet_id) ==
    \A i \in LegIdsOf(L, bet_id) : L[i].result \in {"WON", "VOID"}
all_void(L, bet_id) == \A i \in LegIdsOf(L, bet_id) : L[i].result = "VOID"

\* decimal_odds after the loop over legs 1..n: the product of
\* american_to_decimal over the WON legs of the bet, starting from 1.0;
\* ZeroDivisionError as soon as one call raises
RECURSIVE decimal_odds_of(_, _, _)
decimal_odds_of(L, bet_id, n) ==
    IF n = 0 THEN RatInt(1)
    ELSE LET acc == decimal_odds_of(L, bet_id, n - 1)
         IN  IF acc = ZeroDivisionError THEN acc
             ELSE IF L[n].bet_id = bet_id /\ L[n].result = "WON"
                  THEN LET d == american_to_decimal(L[n].american_odds)
                       IN  IF d = ZeroDivisionError THEN d ELSE RatMul(acc, d)
                  ELSE acc

\* net_cents of one participant of a lost bet
LostNet(participant) == RatInt(-participant.stake_cents)

\* net_cents of one participant of a won bet:
\* (stake_cents / total_stake) * total_payout - stake_cents, not rounded
WonNet(participant, total_stake, total_payout) ==
    RatSub(RatMul(Rat(participant.stake_cents, total_stake), RatInt(total_payout)),
           RatInt(participant.stake_cents))

Settlement(bet_id, person_id, net_cents, ts) ==
    [bet_id |-> bet_id, person_id |-> person_id, net_cents |-> net_cents, ts |-> ts]

\* "Apply business rules": from the legs L of the session and the participants,
\* the new status, the Settlement rows added to the session, and whether the
\* computation raised before reaching them
ApplyBusinessRules(L, P, bet_id, t) ==
    LET ps == ParticipantsOf(P, bet_id)
        total_stake == SumStakes(ps)
        odds == decimal_odds_of(L, bet_id, Len(L))
    IN  IF has_lost(L, bet_id)
        THEN [raised |-> FALSE, status |-> "LOST",
              rows |-> [k \in DOMAIN ps |->
                          Settlement(bet_id, ps[k].person_id, LostNet(ps[k]), t)]]
        ELSE IF has_pending(L, bet_id)
        THEN [raised |-> FALSE, status |-> "OPEN", rows |-> <<>>]
        ELSE IF all_winning(L, bet_id)
        THEN IF odds = ZeroDivisionError
             THEN [raised |-> TRUE, status |-> "OPEN", rows |-> <<>>]
             ELSE [raised |-> FALSE, status |-> "WON",
                   rows |-> [k \in DOMAIN ps |->
                               Settlement(bet_id, ps[k].person_id,
                                   WonNet(ps[k], total_stake,
                                          calculate_parlay_payout(total_stake, odds)),
                                   t)]]
        ELSE IF all_void(L, bet_id)
        THEN [raised |-> FALSE, status |-> "VOID", rows |-> <<>>]
        ELSE [raised |-> FALSE, status |-> "OPEN", rows |-> <<>>]

\* Bet.query.get_or_404(bet_id)
BetExists(B, bet_id) == bet_id \in DOMAIN B

\* Uncommitted as it would be had the flush been a commit
FlushCommitted(committed, flushed) == flushed

\* what storage holds of the legs when the handler raises after the flush and
\* never reaches db.session.commit(): the session is discarded with the request
Uncommitted(committed, flushed) == committed

\* AddSettlements as it would be had the handler deleted the bet's earlier
\* rows before inserting
ReplaceSettlements(S, rows) ==
    SelectSeq(S, LAMBDA x : \A j \in DOMAIN rows : x.bet_id # rows[j].bet_id) \o rows

\* db.session.add(settlement) for each new row, then commit: rows are inserted
\* after the rows the table holds; none is updated or deleted
AddSettlements(S, rows) == S \o rows

\* UpdateBet as it would be had the status been written only when terminal
UpdateBetWhenTerminal(bet, status, t) ==
    IF status # "OPEN"
    THEN [bet EXCEPT !.status = status, !.settled_at = Time(t)]
    ELSE bet

\* bet.status = status; settled_at set only when the status is not OPEN
UpdateBet(bet, status, t) ==
    IF status # "OPEN"
    THEN [bet EXCEPT !.status = status, !.settled_at = Time(t)]
    ELSE [bet EXCEPT !.status = status]

\* the settlement forms of a bet: one result token per leg of the bet
SettleForms(bet_id) == [LegIdsOf(legs, bet_id) -> ResultTokens]

\* The handler.  An unknown bet_id is answered 404 before anything is read or
\* written: the step leaves every variable as it is.  Otherwise the leg loop
\* and the flush give the session's legs L, the business rules give the status
\* and the new rows, and the handler either raises (nothing is committed) or
\* reaches its single commit.
settle_bet(bet_id, form) ==
    IF ~BetExists(bets, bet_id)
    THEN UNCHANGED vars
    ELSE LET L == UpdateLegResults(legs, bet_id, form)
             r == ApplyBusinessRules(L, participants, bet_id, now)
         IN  IF r.raised
             THEN /\ legs' = Uncommitted(legs, L)
                  /\ lastReq' = [op |-> "settle_bet", bet_id |-> bet_id,
                                 outcome |-> "500", session_legs |-> L]
                  /\ now' = now + 1
                  /\ UNCHANGED <<bets, participants, settlements, transactions, calc>>
             ELSE /\ legs' = L
                  /\ bets' = [bets EXCEPT ![bet_id] = UpdateBet(@, r.status, now)]
                  /\ settlements' = AddSettlements(settlements, r.rows)
                  /\ lastReq' = [op |-> "settle_bet", bet_id |-> bet_id,
                                 outcome |-> "committed", session_legs |-> L]
                  /\ now' = now + 1
                  /\ UNCHANGED <<participants, transactions, calc>>

SettleBet ==
    /\ now <= MaxClock
    /\ \E bet_id \in 1..MaxLegRows :
          IF BetExists(bets, bet_id)
          THEN \E form \in SettleForms(bet_id) : settle_bet(bet_id, form)
          ELSE settle_bet(bet_id, <<>>)

-----------------------------------------------------------------------------
(* new_bet *)

\* a non-empty form field is truthy, whatever it spells ("0" included)
Truthy(field) == field # NoField

\* int(american_odds) of a field holding the text of an integer
ParseInt(field) == field[1]

\* legs_data: the legs of the form whose fields are all non-empty, in form
\* order (matchup and bet description are taken as filled in)
legs_data_of(odds_fields) ==
    LET kept == SelectSeq(odds_fields, Truthy)
    IN  [k \in DOMAIN kept |-> ParseInt(kept[k])]

\* float(stake_str) > 0, stake_str given in thousandths of a dollar
StakePositive(mills) == mills > 0

\* int(float(stake_str) * 100): truncation toward zero of the amount in cents
StakeCents(mills) == mills \div 10

\* participants_data: in person order, one entry per person whose stake
\* field is a positive amount
RECURSIVE participants_data_of(_, _)
participants_data_of(stakes, n) ==
    IF n = 0 THEN <<>>
    ELSE LET rest == participants_data_of(stakes, n - 1)
         IN  IF n \in Persons /\ StakePositive(stakes[n])
             THEN Append(rest, [person_id |-> n, stake_cents |-> StakeCents(stakes[n])])
             ELSE rest

\* creation forms of at most max_legs leg fields
NewBetForms(max_legs) ==
    [odds : UNION {[1..n -> OddsFields] : n \in 0..max_legs},
     stakes : [Persons -> StakeMills]]

\* The handler (POST).  A form with no complete leg, no positive stake or a
\* total stake of 0 is answered with a flash message and a redirect: the step
\* leaves every variable as it is.  Otherwise the bet, its participants and its
\* legs are inserted and committed together.
new_bet(form) ==
    LET legs_data == legs_data_of(form.odds)
        participants_data == participants_data_of(form.stakes, Cardinality(Persons))
        total_stake == SumStakes(participants_data)
        bet_id == Len(bets) + 1
        new_legs == [k \in DOMAIN legs_data |->
                        [bet_id |-> bet_id, american_odds |-> legs_data[k],
                         result |-> "PENDING"]]
    IN  IF legs_data = <<>> \/ participants_data = <<>> \/ total_stake = 0
        THEN UNCHANGED vars
        ELSE /\ bets' = Append(bets, [stake_cents |-> total_stake, status |-> "OPEN",
                                      placed_at |-> Time(now), settled_at |-> NULL])
             /\ participants' = participants \o
                    [k \in DOMAIN participants_data |->
                        [bet_id |-> bet_id,
                         person_id |-> participants_data[k].person_id,
                         stake_cents |-> participants_data[k].stake_cents]]
             /\ legs' = legs \o new_legs
             /\ lastReq' = [op |-> "new_bet", bet_id |-> bet_id,
                            outcome |-> "committed", session_legs |-> legs \o new_legs]
             /\ now' = now + 1
             /\ UNCHANGED <<settlements, transactions, calc>>

NewBet ==
    /\ now <= MaxClock
    /\ \E form \in NewBetForms(MaxLegRows - Len(legs)) : new_bet(form)

-----------------------------------------------------------------------------
(* new_transaction *)

\* TransactionType(transaction_type): the enum member of a value
TransactionType(value) ==
    IF value = "deposit" THEN "DEPOSIT"
    ELSE IF value = "withdraw" THEN "WITHDRAW"
    ELSE "ADJUSTMENT"

\* int(amount_dollars * 100): truncation toward zero of the amount in cents,
\* so -1.5 gives -1
AmountCents(mills) == IF mills < 0 THEN -((-mills) \div 10) ELSE mills \div 10

TransactionForms ==
    {[person_id |-> p, type |-> f.type, amount |-> f.amount] :
        p \in Persons, f \in TypedAmounts}

\* The handler (POST): one row is inserted and committed, with the amount as
\* entered, whatever the type.
new_transaction(form) ==
    /\ transactions' = Append(transactions,
            [person_id |-> form.person_id, type |-> TransactionType(form.type),
             amount_cents |-> AmountCents(form.amount), ts |-> Time(now)])
    /\ lastReq' = [op |-> "new_transaction", bet_id |-> 0,
                   outcome |-> "committed", session_legs |-> legs]
    /\ now' = now + 1
    /\ UNCHANGED <<bets, legs, participants, settlements, calc>>

NewTransaction ==
    /\ now <= MaxClock
    /\ \E form \in TransactionForms : new_transaction(form)

-----------------------------------------------------------------------------
(* dashboard: the per-person totals *)

RECURSIVE SumAmounts(_)
SumAmounts(ts) ==
    IF ts = <<>> THEN 0 ELSE Head(ts).amount_cents + SumAmounts(Tail(ts))

RECURSIVE SumNets(_)
SumNets(ss) ==
    IF ss = <<>> THEN RatInt(0) ELSE RatAdd(Head(ss).net_cents, SumNets(Tail(ss)))

\* sum(Transaction.amount_cents) filtered by person_id, or 0
transaction_total(T, person_id) ==
    SumAmounts(SelectSeq(T, LAMBDA t : t.person_id = person_id))

\* sum(Settlement.net_cents) filtered by person_id, or 0
settlement_total(S, person_id) ==
    SumNets(SelectSeq(S, LAMBDA x : x.person_id = person_id))

\* open_bet_total as it would be had the query not filtered on Bet.status
open_bet_total_any_status(B, P, person_id) ==
    SumStakes(SelectSeq(P, LAMBDA p : p.person_id = person_id))

\* sum(BetParticipant.stake_cents) joined with Bet, filtered by person_id and
\* Bet.status == OPEN, or 0
open_bet_total(B, P, person_id) ==
    SumStakes(SelectSeq(P, LAMBDA p : p.person_id = person_id
                                        /\ B[p.bet_id].status = "OPEN"))

\* person_data['live_money_cents']
live_money(T, S, B, P, person_id) ==
    RatSub(RatAdd(RatInt(transaction_total(T, person_id)), settlement_total(S, person_id)),
           RatInt(open_bet_total(B, P, person_id)))

\* person_data['ownership_cents']
ownership_cents(T, S, person_id) ==
    RatAdd(RatInt(transaction_total(T, person_id)), settlement_total(S, person_id))

\* person_data['exposure_cents']
exposure_cents(B, P, person_id) == open_bet_total(B, P, person_id)

-----------------------------------------------------------------------------
(* The arithmetic on its own, in binary64 *)

NoCalc == [fn |-> "none"]

\* decimal_to_american(american_to_decimal(american_odds)); the second call
\* is not made when the first raises
round_trip(american_odds) ==
    Bind(american_to_decimal_f64(american_odds), LAMBDA decimal_odds :
        IF decimal_odds = FZeroDivisionError
        THEN [fn |-> "round_trip", american_odds |-> american_odds,
              raised |-> TRUE, decimal_odds |-> decimal_odds, american |-> 0]
        ELSE [fn |-> "round_trip", american_odds |-> american_odds,
              raised |-> FALSE, decimal_odds |-> decimal_odds,
              american |-> decimal_to_american(decimal_odds)])

\* decimal_odds of a bet whose legs are all WON, with the odds given: 1.0
\* multiplied by american_to_decimal of each leg in turn
RECURSIVE decimal_odds_f64(_)
decimal_odds_f64(leg_odds) ==
    IF leg_odds = <<>> THEN FInt(1)
    ELSE FMul(decimal_odds_f64(SubSeq(leg_odds, 1, Len(leg_odds) - 1)),
              american_to_decimal_f64(leg_odds[Len(leg_odds)]))

RECURSIVE SumCents(_)
SumCents(stakes) == IF stakes = <<>> THEN 0 ELSE Head(stakes) + SumCents(Tail(stakes))

\* net_cents of one participant of a won bet, on doubles:
\* (stake_cents / total_stake) * total_payout - stake_cents
WonNet_f64(stake_cents, total_stake, total_payout) ==
    FSub(FMul(FDiv(FInt(stake_cents), FInt(total_stake)), FInt(total_payout)),
         FInt(stake_cents))

\* the WON branch of settle_bet for participants of the stakes given and WON
\* legs of the odds given: the payout and each participant's net_cents
settle_won(stakes, leg_odds) ==
    Bind(SumCents(stakes), LAMBDA total_stake :
    Bind(calculate_parlay_payout_f64(total_stake, decimal_odds_f64(leg_odds)),
         LAMBDA total_payout :
        [fn |-> "settle_won", stakes |-> stakes, leg_odds |-> leg_odds,
         total_stake |-> total_stake, total_payout |-> total_payout,
         net_cents |-> [k \in DOMAIN stakes |->
                          WonNet_f64(stakes[k], total_stake, total_payout)]]))

\* American odds handed to the round trip
RoundTripOdds == (-MaxOdds)..MaxOdds

\* the stakes of one or two participants, not all 0, and the odds of one or
\* two WON legs
SplitStakes ==
    {st \in UNION {[1..n -> 0..MaxStakeCents] : n \in 1..2} : SumCents(st) > 0}
SplitOdds == UNION {[1..n -> {-200, -110, 150}] : n \in 1..2}

RoundTrip ==
    /\ calc = NoCalc
    /\ \E a \in RoundTripOdds : calc' = round_trip(a)
    /\ UNCHANGED <<storage, transactions, now, lastReq>>

SettleWon ==
    /\ calc = NoCalc
    /\ \E stakes \in SplitStakes : \E leg_odds \in SplitOdds :
          calc' = settle_won(stakes, leg_odds)
    /\ UNCHANGED <<storage, transactions, now, lastReq>>

-----------------------------------------------------------------------------
(* The state machine *)

\* the database after init_db and seed_db: the two persons, no other row
Init ==
    /\ bets = <<>>
    /\ legs = <<>>
    /\ participants = <<>>
    /\ settlements = <<>>
    /\ transactions = <<>>
    /\ calc = NoCalc
    /\ now = 1
    /\ lastReq = [op |-> "init", bet_id |-> 0, outcome |-> "committed",
                  session_legs |-> <<>>]

Next == NewBet \/ SettleBet

Spec == Init /\ [][Next]_vars

\* creation forms for the ledger: as NewBetForms, with every odds field
\* filled in with "-200" (the odds of a leg reach the totals of the dashboard
\* only through the net_cents of a WON settlement: 1 for a lone stake of one
\* cent, 0.5 each for two)
LedgerOddsFields == {Field(-200)}
LedgerBetForms(max_legs) ==
    [odds : UNION {[1..n -> LedgerOddsFields] : n \in 0..max_legs},
     stakes : [Persons -> StakeMills]]

NewLedgerBet ==
    /\ now <= MaxClock
    /\ \E form \in LedgerBetForms(MaxLegRows - Len(legs)) : new_bet(form)

\* the same handlers together with the transaction form, in any order
LedgerNext == NewTransaction \/ NewLedgerBet \/ SettleBet

LedgerSpec == Init /\ [][LedgerNext]_vars

\* the arithmetic of services/odds.py and of the WON branch, applied to
\* inputs drawn from the sets above
ArithmeticNext == RoundTrip \/ SettleWon

ArithmeticSpec == Init /\ [][ArithmeticNext]_vars

-----------------------------------------------------------------------------
(* Vocabulary of the properties *)

Terminal == {"WON", "LOST", "VOID"}

\* the results of the legs of bet b in a legs table
ResultsOf(L, b) == {L[i].result : i \in {j \in DOMAIN L : L[j].bet_id = b}}

\* this step is a settle_bet call on the existing bet b
SettleStep(b) ==
    /\ lastReq'.op = "settle_bet"
    /\ lastReq'.bet_id = b
    /\ now' = now + 1

\* the leg results of bet b after the step's call applied the submitted ones
AppliedResults(b) == ResultsOf(lastReq'.session_legs, b)

\* the Settlement rows the step inserted, the old rows being kept in place
KeepsRows ==
    /\ Len(settlements') >= Len(settlements)
    /\ SubSeq(settlements', 1, Len(settlements)) = settlements
Inserted == SubSeq(settlements', Len(settlements) + 1, Len(settlements'))

\* the BetParticipant rows of bet b
ParticipantRows(b) == {k \in DOMAIN participants : participants[k].bet_id = b}

\* the rows of S for bet b and person p
RowsFor(S, b, p) == {j \in DOMAIN S : S[j].bet_id = b /\ S[j].person_id = p}

\* the step inserted exactly one Settlement row per participant of b and no
\* other row
OneRowPerParticipant(b) ==
    /\ KeepsRows
    /\ Len(Inserted) = Cardinality(ParticipantRows(b))
    /\ \A k \in ParticipantRows(b) :
          Cardinality(RowsFor(Inserted, b, participants[k].person_id)) = 1

\* the net_cents of the row the step inserted for participant row k
InsertedNet(b, k) ==
    LET j == CHOOSE j \in RowsFor(Inserted, b, participants[k].person_id) : TRUE
    IN  Inserted[j].net_cents

-----------------------------------------------------------------------------
(* The two arithmetics agree on what the handlers are given *)

\* the rational a double of small significand is
RatOfDouble(x) ==
    IF x.exp >= 0
    THEN RatInt(x.sgn * BInt(x.man) * Pow2(x.exp))
    ELSE Rat(x.sgn * BInt(x.man), Pow2(-x.exp))

\* for stakes and odds among those the handlers are given, the payout and
\* the net_cents computed on rationals are those computed on doubles
RationalsAreTheDoubles ==
    (/\ calc.fn = "settle_won"
     /\ \A k \in DOMAIN calc.stakes :
           calc.stakes[k] \in {StakeCents(m) : m \in StakeMills}
     /\ \A k \in DOMAIN calc.leg_odds : calc.leg_odds[k] \in OddsValues)
    => LET L == [k \in DOMAIN calc.leg_odds |->
                   [bet_id |-> 1, american_odds |-> calc.leg_odds[k], result |-> "WON"]]
           payout == calculate_parlay_payout(calc.total_stake,
                                             decimal_odds_of(L, 1, Len(L)))
       IN  /\ calc.total_payout = payout
           /\ \A k \in DOMAIN calc.stakes :
                 RatOfDouble(calc.net_cents[k])
                   = WonNet([stake_cents |-> calc.stakes[k]], calc.total_stake, payout)

-----------------------------------------------------------------------------
(* C1 *)

\* C1: a settle_bet call after which (submitted results applied) some leg of
\* the bet is LOST sets the bet's status to LOST and inserts exactly one
\* Settlement row per participant, with net_cents = -stake_cents, whatever the
\* other legs' results are.
C1_LostSettlesEveryStake ==
    [][\A b \in DOMAIN bets :
          (SettleStep(b) /\ "LOST" \in AppliedResults(b))
          => /\ lastReq'.outcome = "committed"
             /\ bets'[b].status = "LOST"
             /\ OneRowPerParticipant(b)
             /\ \A k \in ParticipantRows(b) :
                   InsertedNet(b, k) = [num |-> -participants[k].stake_cents, den |-> 1]
      ]_vars

\* a two-leg bet settled LOST with its other leg still PENDING, two
\* participants, one row each
C1_Witness ==
    /\ lastReq.op = "settle_bet"
    /\ lastReq.bet_id \in DOMAIN bets
    /\ bets[lastReq.bet_id].status = "LOST"
    /\ ResultsOf(legs, lastReq.bet_id) = {"LOST", "PENDING"}
    /\ Cardinality(ParticipantRows(lastReq.bet_id)) = 2
    /\ Len(settlements) = 2

-----------------------------------------------------------------------------
(* C2 *)

\* C2: a settle_bet call after which no leg of the bet is LOST and some leg is
\* PENDING leaves the bet's status OPEN and inserts no Settlement row.
C2_PendingKeepsOpen ==
    [][\A b \in DOMAIN bets :
          (SettleStep(b) /\ "LOST" \notin AppliedResults(b)
                         /\ "PENDING" \in AppliedResults(b))
          => /\ lastReq'.outcome = "committed"
             /\ bets'[b].status = "OPEN"
             /\ settlements' = settlements
      ]_vars

\* a bet with legs [WON, PENDING] after a settle_bet call: OPEN, no rows
C2_Witness ==
    /\ lastReq.op = "settle_bet"
    /\ lastReq.bet_id \in DOMAIN bets
    /\ ResultsOf(legs, lastReq.bet_id) = {"WON", "PENDING"}
    /\ bets[lastReq.bet_id].status = "OPEN"
    /\ settlements = <<>>

-----------------------------------------------------------------------------
(* C3 *)

\* C3: a settle_bet call after which every leg of the bet is VOID sets the
\* bet's status to VOID and inserts no Settlement row.
C3_AllVoidIsVoid ==
    [][\A b \in DOMAIN bets :
          (SettleStep(b) /\ AppliedResults(b) = {"VOID"})
          => /\ bets'[b].status = "VOID"
             /\ settlements' = settlements
      ]_vars

-----------------------------------------------------------------------------
(* C4 *)

\* the payout and the rounded share the claim states, from the session's legs
ClaimedPayout(b) ==
    calculate_parlay_payout(
        SumStakes(ParticipantsOf(participants, b)),
        decimal_odds_of(lastReq'.session_legs, b, Len(lastReq'.session_legs)))
ClaimedNet(b, k) ==
    RoundHalfEven(participants[k].stake_cents * ClaimedPayout(b),
                  SumStakes(ParticipantsOf(participants, b)))
        - participants[k].stake_cents

\* C4: a settle_bet call that completes and after which no leg is LOST or
\* PENDING and some leg is WON sets the status to WON and gives each
\* participant one Settlement whose net_cents is the integer
\* round(stake_cents / total_stake * total_payout) - stake_cents.
C4_WonNetIsRoundedShare ==
    [][\A b \in DOMAIN bets :
          (SettleStep(b) /\ lastReq'.outcome = "committed"
                         /\ "LOST" \notin AppliedResults(b)
                         /\ "PENDING" \notin AppliedResults(b)
                         /\ "WON" \in AppliedResults(b))
          => /\ bets'[b].status = "WON"
             /\ OneRowPerParticipant(b)
             /\ \A k \in ParticipantRows(b) :
                   InsertedNet(b, k) = [num |-> ClaimedNet(b, k), den |-> 1]
      ]_vars

-----------------------------------------------------------------------------
(* C5 *)

\* C5: a bet whose status is terminal keeps that status in every later step.
C5_TerminalStatusIsFinal ==
    [][\A b \in DOMAIN bets :
          bets[b].status \in Terminal => bets'[b].status = bets[b].status
      ]_vars

-----------------------------------------------------------------------------
(* C6 *)

\* C6: settle_bet on a bet that is already terminal is carried out like any
\* other: the old Settlement rows stay, and when the call ends WON or LOST
\* every participant gets one more row, so a (bet, person) pair that had a row
\* has more than one afterwards.
C6_ResettleAddsRows ==
    [][\A b \in DOMAIN bets :
          (SettleStep(b) /\ lastReq'.outcome = "committed"
                         /\ bets[b].status \in Terminal)
          => /\ KeepsRows
             /\ bets'[b].status \in {"WON", "LOST"}
                   => \A k \in ParticipantRows(b) :
                         Cardinality(RowsFor(settlements', b, participants[k].person_id))
                           = Cardinality(RowsFor(settlements, b, participants[k].person_id)) + 1
      ]_vars

\* after a second settle_bet call one (bet, person) pair has two rows
C6_Witness ==
    /\ lastReq.op = "settle_bet"
    /\ \E b \in DOMAIN bets : \E p \in Persons :
          Cardinality(RowsFor(settlements, b, p)) >= 2

-----------------------------------------------------------------------------
(* C7 *)

\* C7: a leg whose result is WON, LOST or VOID keeps that result in every
\* later step.
C7_LegResultIsFinal ==
    [][\A i \in DOMAIN legs :
          legs[i].result # "PENDING" => legs'[i].result = legs[i].result
      ]_vars

-----------------------------------------------------------------------------
(* C8 *)

\* C8: in every state, a bet's settled_at is null exactly when its status is
\* OPEN.
C8_SettledAtIffTerminal ==
    \A b \in DOMAIN bets : (bets[b].settled_at = NULL) <=> (bets[b].status = "OPEN")

-----------------------------------------------------------------------------
(* C9 *)

\* C9: a settle_bet call that raises leaves the four tables as they were; one
\* that completes stores the leg results it applied together with the status
\* and the rows computed from them.
C9_SettleIsAllOrNothing ==
    [][\A b \in DOMAIN bets :
          SettleStep(b)
          => \/ /\ lastReq'.outcome = "500"
                /\ storage' = storage
             \/ /\ lastReq'.outcome = "committed"
                /\ legs' = lastReq'.session_legs
                /\ KeepsRows
                /\ (Inserted # <<>>) => bets'[b].status \in {"WON", "LOST"}
                /\ (bets'[b].status # "OPEN") => bets'[b].settled_at = Time(now)
      ]_vars

\* a call that marked a leg WON in its session and then raised: the leg is
\* still PENDING in storage
C9_Witness ==
    /\ lastReq.op = "settle_bet"
    /\ lastReq.outcome = "500"
    /\ \E i \in DOMAIN legs :
          /\ legs[i].result = "PENDING"
          /\ lastReq.session_legs[i].result = "WON"

-----------------------------------------------------------------------------
(* C10 *)

\* C10: in every state, every stored leg has nonzero american_odds.
C10_NoZeroOddsStored ==
    \A i \in DOMAIN legs : legs[i].american_odds # 0

-----------------------------------------------------------------------------
(* C11 *)

\* C11: in every state, every stored BetParticipant has stake_cents > 0.
C11_StakesArePositive ==
    \A k \in DOMAIN participants : participants[k].stake_cents > 0

-----------------------------------------------------------------------------
(* C12 *)

\* the exact sum of a sequence of doubles
RECURSIVE ExactSum(_)
ExactSum(xs) == IF xs = <<>> THEN FZero ELSE ExactAdd(Head(xs), ExactSum(Tail(xs)))

\* C12: when a bet is settled WON, the net_cents of the Settlement rows
\* created sum to total_payout minus the total stake, for every combination
\* of participant stakes and leg odds.
C12_WonNetsSumToProfit ==
    calc.fn = "settle_won"
    => ExactSum(calc.net_cents) = FInt(calc.total_payout - calc.total_stake)

-----------------------------------------------------------------------------
(* C13 *)

Sign(n) == IF n > 0 THEN 1 ELSE IF n < 0 THEN -1 ELSE 0

\* the round trip kept the sign and moved the odds by at most 1
SameSignWithinOne ==
    /\ ~calc.raised
    /\ Sign(calc.american) = Sign(calc.american_odds)
    /\ Abs(calc.american - calc.american_odds) <= 1

\* C13 as stated: for every nonzero integer American odds a,
\* decimal_to_american(american_to_decimal(a)) has the sign of a and differs
\* from a by at most 1.
C13_RoundTripWithinOne ==
    (calc.fn = "round_trip" /\ calc.american_odds # 0) => SameSignWithinOne

\* C13 amended: the same for the American odds a >= 100 and a <= -101, those
\* whose decimal odds fall on the side of 2.0 that gives their sign back.
C13_RoundTripWithinOneOutsideEvens ==
    (calc.fn = "round_trip"
        /\ (calc.american_odds >= 100 \/ calc.american_odds <= -101))
    => SameSignWithinOne

\* -102 comes back as -101: 1 + 100/102 is rounded down, and the quotient
\* -100 / (d - 1) is truncated toward zero
C13_Witness ==
    /\ calc.fn = "round_trip"
    /\ calc.american_odds = -102
    /\ calc.american = -101

-----------------------------------------------------------------------------
(* C14 *)

\* the stake of person p in bet b (0 for a person who is not a participant)
StakeIn(b, p) ==
    SumStakes(SelectSeq(participants, LAMBDA x : x.bet_id = b /\ x.person_id = p))

\* C14: a settle_bet call that settles as LOST a bet that was OPEN and had no
\* Settlement row lowers each participant's ownership by exactly their stake
\* and their exposure by the same amount, so that every person's live money is
\* unchanged; a person who is not a participant keeps ownership, exposure and
\* live money.
C14_LostMovesExposureToOwnership ==
    [][\A b \in DOMAIN bets :
          (SettleStep(b) /\ lastReq'.outcome = "committed"
                         /\ bets[b].status = "OPEN"
                         /\ (\A j \in DOMAIN settlements : settlements[j].bet_id # b)
                         /\ bets'[b].status = "LOST")
          => \A p \in Persons :
                /\ ownership_cents(transactions', settlements', p)
                     = RatSub(ownership_cents(transactions, settlements, p),
                              RatInt(StakeIn(b, p)))
                /\ exposure_cents(bets', participants', p)
                     = exposure_cents(bets, participants, p) - StakeIn(b, p)
                /\ live_money(transactions', settlements', bets', participants', p)
                     = live_money(transactions, settlements, bets, participants, p)
      ]_vars

\* after a transaction, a bet of one participant settled LOST by its first
\* settle_bet call: the participant's ownership is the transaction less the
\* stake, the other person is not a participant
C14_Witness ==
    /\ lastReq.op = "settle_bet"
    /\ lastReq.bet_id \in DOMAIN bets
    /\ bets[lastReq.bet_id].status = "LOST"
    /\ transactions # <<>>
    /\ Len(settlements) = 1
    /\ \E p \in Persons :
          /\ StakeIn(lastReq.bet_id, p) = 1
          /\ exposure_cents(bets, participants, p) = 0
          /\ ownership_cents(transactions, settlements, p)
               = RatInt(transaction_total(transactions, p) - 1)
          /\ \E q \in Persons \ {p} : StakeIn(lastReq.bet_id, q) = 0

=============================================================================
